---- MODULE Spec2Model ----
(***************************************************************************)
(* SPYDailyForecastStrategy (Automated Trading/snp_forecast.py): the       *)
(* warm-up gate, the feature extraction, the prediction and the long/flat  *)
(* signal state machine of calculate_signals.                              *)
(*                                                                         *)
(* Returns are integers in units of 0.01 (one percent as a fraction), so   *)
(* that lags[i]*100.0 is the integer multiplication by 100.                *)
(***************************************************************************)
EXTENDS Integers, Sequences, FiniteSets, TLC

\* ---- bounds of the model ------------------------------------------------
MaxBars == 8        \* MARKET events delivered in one run
MaxOther == 2       \* non-MARKET events delivered in one run

\* ---- values the environment supplies ------------------------------------
EventTypes == {"MARKET", "SIGNAL", "ORDER", "FILL"}
Returns == {-1, 0, 1}
Models == {"bull", "bear", "momentum", "reversal"}
sym == "SPY"

\* dates are the integers YYYYMMDD
model_start_date == 20160110
model_end_date == 20171231
model_start_test_date == 20170101
\* the days the historical source may have a return for, and the signs of
\* those returns
SampleDates == {20160111, 20161230, 20170101, 20170103}
TrainReturns == {-1, 1}

VARIABLES
    bar_index,      \* self.bar_index
    long_market,    \* self.long_market
    short_market,   \* self.short_market
    model,          \* self.model, the fitted classifier
    datetime_now,   \* self.datetime_now
    events,         \* self.events, the queue the signals are put on
    utcnow,         \* the clock dt.datetime.utcnow() reads
    delivered,      \* how many events of each type calculate_signals was given
    path,           \* the path the last call of calculate_signals took
    lags,           \* local lags of the last call (<<>> when not fetched)
    X,              \* local pred_series of the last call
    pred,           \* local pred of the last call
    taken,          \* the `if` bodies the last call executed, in order
    raised,         \* the exception that left the last call, if any
    snpret,         \* local snpret of create_symbol_forecast_model
    X_train,        \* local X_train
    X_test,         \* local X_test
    y_train,        \* local y_train
    y_test,         \* local y_test
    fitted_on,      \* the arguments of the last model.fit
    n_fit,          \* calls of model.fit so far
    n_fetch,        \* calls of bars.get_latest_bars_values so far
    n_predict       \* calls of model.predict so far

vars == <<bar_index, long_market, short_market, model, datetime_now, events,
          utcnow, delivered, path, lags, X, pred, taken, raised,
          snpret, X_train, X_test, y_train, y_test, fitted_on,
          n_fit, n_fetch, n_predict>>

NoX == [Lag1 |-> 0, Lag2 |-> 0]

Sign(n) == IF n > 0 THEN 1 ELSE IF n < 0 THEN -1 ELSE 0

\* SignalEvent(strategy_id, symbol, datetime, signal_type, strength)
SignalEvent(strategy_id, symbol, datetime, signal_type, strength) ==
    [type |-> "SIGNAL", strategy_id |-> strategy_id, symbol |-> symbol,
     datetime |-> datetime, signal_type |-> signal_type,
     strength |-> strength]

\* self.bars.get_latest_bars_values(sym, "returns", N): the last N return
\* observations, most recent first, fewer when the history is shorter.
get_latest_bars_values(N) ==
    UNION {[1..n -> Returns] : n \in 0..N}

\* self.model.predict(pred_reshape): a class label of the fitted classifier.
predict(m, x) ==
    CASE m = "bull" -> 1
      [] m = "bear" -> -1
      [] m = "momentum" -> Sign(x.Lag1)
      [] m = "reversal" -> -Sign(x.Lag2)

\* the warm-up gate: if self.bar_index > 5
GateOpen_off_by_one(bi) == bi >= 5
GateOpen_one_late(bi) == bi > 6
GateOpen(bi) == bi > 5

\* self.bar_index += 1 inside `if event.type == 'MARKET'`
bar_index_after_any_event(event, bi) == bi + 1
bar_index_after_signal_too(event, bi) ==
    IF event.type \in {"MARKET", "SIGNAL"} THEN bi + 1 ELSE bi
bar_index_after(event, bi) ==
    IF event.type = "MARKET" THEN bi + 1 ELSE bi

\* pd.Series({'Lag1': lags[1]*100.0, 'Lag2': lags[2]*100.0}); Python's
\* lags[k] is lags[k+1] here.
pred_series_from_current(l) ==
    [Lag1 |-> l[1] * 100, Lag2 |-> l[2] * 100]
pred_series(l) ==
    [Lag1 |-> l[2] * 100, Lag2 |-> l[3] * 100]

\* lags[1], lags[2] on an array of fewer than 3 elements: IndexError
IndexError(l) == Len(l) < 3

\* if pred > 0 and not self.long_market: ...
\* st is the record of long_market, the queue and the bodies executed.
LongIf_no_state_check(p, st, cur_date) ==
    IF p > 0
    THEN [long_market |-> TRUE,
          events |-> Append(st.events,
                            SignalEvent(1, sym, cur_date, "LONG", 1)),
          taken |-> Append(st.taken, "LONG")]
    ELSE st
LongIf_no_flag(p, st, cur_date) ==
    IF p > 0 /\ ~st.long_market
    THEN [long_market |-> st.long_market,
          events |-> Append(st.events,
                            SignalEvent(1, sym, cur_date, "LONG", 1)),
          taken |-> Append(st.taken, "LONG")]
    ELSE st
LongIf(p, st, cur_date) ==
    IF p > 0 /\ ~st.long_market
    THEN [long_market |-> TRUE,
          events |-> Append(st.events,
                            SignalEvent(1, sym, cur_date, "LONG", 1)),
          taken |-> Append(st.taken, "LONG")]
    ELSE st

\* if pred < 0 and self.long_market: ...
ExitIf_no_put(p, st, cur_date) ==
    IF p < 0 /\ st.long_market
    THEN [long_market |-> FALSE,
          events |-> st.events,
          taken |-> Append(st.taken, "EXIT")]
    ELSE st
ExitIf_not_positive(p, st, cur_date) ==
    IF p <= 0 /\ st.long_market
    THEN [long_market |-> FALSE,
          events |-> Append(st.events,
                            SignalEvent(1, sym, cur_date, "EXIT", 1)),
          taken |-> Append(st.taken, "EXIT")]
    ELSE st
ExitIf_no_pred_check(p, st, cur_date) ==
    IF st.long_market
    THEN [long_market |-> FALSE,
          events |-> Append(st.events,
                            SignalEvent(1, sym, cur_date, "EXIT", 1)),
          taken |-> Append(st.taken, "EXIT")]
    ELSE st
ExitIf_min_holding(p, st, cur_date) ==
    IF p < 0 /\ st.long_market /\ bar_index' > 7
    THEN [long_market |-> FALSE,
          events |-> Append(st.events,
                            SignalEvent(1, sym, cur_date, "EXIT", 1)),
          taken |-> Append(st.taken, "EXIT")]
    ELSE st
ExitIf_no_flag(p, st, cur_date) ==
    IF p < 0 /\ st.long_market
    THEN [long_market |-> st.long_market,
          events |-> Append(st.events,
                            SignalEvent(1, sym, cur_date, "EXIT", 1)),
          taken |-> Append(st.taken, "EXIT")]
    ELSE st
ExitIf_or_short(p, st, cur_date) ==
    IF p < 0 /\ st.long_market
    THEN [long_market |-> FALSE,
          events |-> Append(st.events,
                            SignalEvent(1, sym, cur_date, "EXIT", 1)),
          taken |-> Append(st.taken, "EXIT")]
    ELSE IF p < 0 /\ st.taken = <<>>
    THEN [long_market |-> st.long_market,
          events |-> Append(st.events,
                            SignalEvent(1, sym, cur_date, "SHORT", 1)),
          taken |-> Append(st.taken, "SHORT")]
    ELSE st
ExitIf(p, st, cur_date) ==
    IF p < 0 /\ st.long_market
    THEN [long_market |-> FALSE,
          events |-> Append(st.events,
                            SignalEvent(1, sym, cur_date, "EXIT", 1)),
          taken |-> Append(st.taken, "EXIT")]
    ELSE st

\* cur_date = self.datetime_now
signal_datetime_at_event == utcnow
signal_datetime == datetime_now

\* The body of `if self.bar_index > 5:` once l has been fetched.
Qualifying_skip_short(l) ==
    IF IndexError(l)
    THEN /\ path' = "warmup"
         /\ lags' = l
         /\ raised' = "none"
         /\ X' = NoX
         /\ pred' = 0
         /\ taken' = <<>>
         /\ UNCHANGED <<long_market, events, n_predict>>
    ELSE LET cur_date == signal_datetime
             x == pred_series(l)
             p == predict(model, x)
             st0 == [long_market |-> long_market, events |-> events,
                     taken |-> <<>>]
             st2 == ExitIf(p, LongIf(p, st0, cur_date), cur_date)
         IN  /\ path' = "predicted"
             /\ lags' = l
             /\ X' = x
             /\ pred' = p
             /\ long_market' = st2.long_market
             /\ events' = st2.events
             /\ taken' = st2.taken
             /\ raised' = "none"
             /\ n_predict' = n_predict + 1
Qualifying(l) ==
    IF IndexError(l)
    THEN /\ path' = "raised"
         /\ lags' = l
         /\ raised' = "IndexError"
         /\ X' = NoX
         /\ pred' = 0
         /\ taken' = <<>>
         /\ UNCHANGED <<long_market, events, n_predict>>
    ELSE LET cur_date == signal_datetime
             x == pred_series(l)
             p == predict(model, x)
             st0 == [long_market |-> long_market, events |-> events,
                     taken |-> <<>>]
             st2 == ExitIf(p, LongIf(p, st0, cur_date), cur_date)
         IN  /\ path' = "predicted"
             /\ lags' = l
             /\ X' = x
             /\ pred' = p
             /\ long_market' = st2.long_market
             /\ events' = st2.events
             /\ taken' = st2.taken
             /\ raised' = "none"
             /\ n_predict' = n_predict + 1

NumOther(d) == d["SIGNAL"] + d["ORDER"] + d["FILL"]

\* the locals of create_symbol_forecast_model are gone once another call
\* is made
ForgetModelLocals ==
    /\ snpret' = {}
    /\ X_train' = {}
    /\ X_test' = {}
    /\ y_train' = {}
    /\ y_test' = {}
    /\ fitted_on' = <<{}, {}>>

\* calculate_signals(event); an exception ends the run.
calculate_signals_refit(event) ==
    /\ path \notin {"new", "failed"}
    /\ raised = "none"
    /\ IF event.type = "MARKET"
       THEN delivered["MARKET"] < MaxBars
       ELSE NumOther(delivered) < MaxOther
    /\ delivered' = [delivered EXCEPT ![event.type] = @ + 1]
    /\ utcnow' = utcnow + 1
    /\ bar_index' = bar_index_after(event, bar_index)
    /\ IF event.type = "MARKET"
       THEN IF GateOpen(bar_index')
            THEN /\ n_fetch' = n_fetch + 1
                 /\ \E l \in get_latest_bars_values(3) : Qualifying(l)
            ELSE /\ path' = "warmup"
                 /\ lags' = <<>>
                 /\ X' = NoX
                 /\ pred' = 0
                 /\ taken' = <<>>
                 /\ UNCHANGED <<long_market, events, raised,
                                n_fetch, n_predict>>
       ELSE /\ path' = "ignored"
            /\ lags' = <<>>
            /\ X' = NoX
            /\ pred' = 0
            /\ taken' = <<>>
            /\ UNCHANGED <<long_market, events, raised,
                           n_fetch, n_predict>>
    /\ ForgetModelLocals
    /\ IF event.type = "MARKET"
       THEN n_fit' = n_fit + 1 /\ model' \in Models
       ELSE UNCHANGED <<model, n_fit>>
    /\ UNCHANGED <<short_market, datetime_now>>
calculate_signals(event) ==
    /\ path \notin {"new", "failed"}
    /\ raised = "none"
    /\ IF event.type = "MARKET"
       THEN delivered["MARKET"] < MaxBars
       ELSE NumOther(delivered) < MaxOther
    /\ delivered' = [delivered EXCEPT ![event.type] = @ + 1]
    /\ utcnow' = utcnow + 1
    /\ bar_index' = bar_index_after(event, bar_index)
    /\ IF event.type = "MARKET"
       THEN IF GateOpen(bar_index')
            THEN /\ n_fetch' = n_fetch + 1
                 /\ \E l \in get_latest_bars_values(3) : Qualifying(l)
            ELSE /\ path' = "warmup"
                 /\ lags' = <<>>
                 /\ X' = NoX
                 /\ pred' = 0
                 /\ taken' = <<>>
                 /\ UNCHANGED <<long_market, events, raised,
                                n_fetch, n_predict>>
       ELSE /\ path' = "ignored"
            /\ lags' = <<>>
            /\ X' = NoX
            /\ pred' = 0
            /\ taken' = <<>>
            /\ UNCHANGED <<long_market, events, raised,
                           n_fetch, n_predict>>
    /\ ForgetModelLocals
    /\ UNCHANGED <<short_market, model, datetime_now, n_fit>>

\* ---- model construction --------------------------------------------------

\* the histories the historical source may hold: a return sign for some of
\* the sample days
Histories ==
    UNION {[D -> TrainReturns] : D \in SUBSET SampleDates}

\* the k-th return before day d in history h, in percent (0 when the
\* history does not reach that far back)
Earlier(h, d) == {e \in DOMAIN h : e < d}
Latest(S) == CHOOSE e \in S : \A f \in S : f <= e
LagOf(h, d, k) ==
    LET E1 == Earlier(h, d)
    IN  IF E1 = {} THEN 0
        ELSE IF k = 1 THEN h[Latest(E1)] * 100
        ELSE LET E2 == Earlier(h, Latest(E1))
             IN  IF E2 = {} THEN 0 ELSE h[Latest(E2)] * 100

\* create_lagged_series(symbol, start_date, end_date, lags=5): one row per
\* day of the range, with the lagged percentage returns and the direction.
create_lagged_series(h, start_date, end_date) ==
    {[date |-> d, Today |-> h[d] * 100, Lag1 |-> LagOf(h, d, 1),
      Lag2 |-> LagOf(h, d, 2), Direction |-> Sign(h[d])] :
        d \in {e \in DOMAIN h : start_date <= e /\ e <= end_date}}

\* X = snpret[["Lag1", "Lag2"]];  y = snpret[["Direction"]]
X_of(tbl) == {[date |-> r.date, Lag1 |-> r.Lag1, Lag2 |-> r.Lag2] : r \in tbl}
y_of(tbl) == {[date |-> r.date, Direction |-> r.Direction] : r \in tbl}

\* tbl[tbl.index < start_test]
before_with_cutoff(tbl, start_test) == {r \in tbl : r.date <= start_test}
before(tbl, start_test) == {r \in tbl : r.date < start_test}

\* tbl[tbl.index >= start_test]
on_or_after(tbl, start_test) == {r \in tbl : r.date >= start_test}

\* the class labels of a label table
classes(yt) == {r.Direction : r \in yt}

\* QDA().fit(X, y) raises ValueError on no samples and on fewer than two
\* classes
fit_error_only_empty(Xt, yt) ==
    IF Xt = {} THEN "ValueError" ELSE "none"
fit_error(Xt, yt) ==
    IF Xt = {} \/ Cardinality(classes(yt)) < 2 THEN "ValueError" ELSE "none"

\* the decision rules a successful fit may learn
fit(Xt, yt) == Models

\* create_symbol_forecast_model, on the history h of the source
create_symbol_forecast_model(h) ==
    LET tbl == create_lagged_series(h, model_start_date, model_end_date)
        start_test == model_start_test_date
        Xtr == before(X_of(tbl), start_test)
        Xte == on_or_after(X_of(tbl), start_test)
        ytr == before(y_of(tbl), start_test)
        yte == on_or_after(y_of(tbl), start_test)
    IN  /\ snpret' = tbl
        /\ X_train' = Xtr
        /\ X_test' = Xte
        /\ y_train' = ytr
        /\ y_test' = yte
        /\ fitted_on' = <<Xtr, ytr>>
        /\ n_fit' = n_fit + 1
        /\ IF fit_error(Xtr, ytr) # "none"
           THEN /\ raised' = fit_error(Xtr, ytr)
                /\ model' = "none"
                /\ path' = "failed"
           ELSE /\ raised' = "none"
                /\ model' \in fit(Xtr, ytr)
                /\ path' = "constructed"

\* SPYDailyForecastStrategy.__init__(bars, events)
SPYDailyForecastStrategy_init ==
    /\ path = "new"
    /\ events' = events
    /\ datetime_now' = utcnow
    /\ utcnow' = utcnow + 1
    /\ long_market' = FALSE
    /\ short_market' = FALSE
    /\ bar_index' = 0
    /\ \E h \in Histories : create_symbol_forecast_model(h)
    /\ UNCHANGED <<delivered, lags, X, pred, taken, n_fetch, n_predict>>

\* before the strategy is constructed: the queue exists and is empty
Init ==
    /\ utcnow = 0
    /\ datetime_now = -1
    /\ long_market = FALSE
    /\ short_market = FALSE
    /\ bar_index = 0
    /\ model = "none"
    /\ events = <<>>
    /\ delivered = [t \in EventTypes |-> 0]
    /\ path = "new"
    /\ lags = <<>>
    /\ X = NoX
    /\ pred = 0
    /\ taken = <<>>
    /\ raised = "none"
    /\ snpret = {}
    /\ X_train = {}
    /\ X_test = {}
    /\ y_train = {}
    /\ y_test = {}
    /\ fitted_on = <<{}, {}>>
    /\ n_fit = 0
    /\ n_fetch = 0
    /\ n_predict = 0

Next ==
    \/ SPYDailyForecastStrategy_init
    \/ \E t \in EventTypes : calculate_signals([type |-> t])

Spec == Init /\ [][Next]_vars

\* ---- properties ---------------------------------------------------------

\* the step is a call of calculate_signals with a MARKET event
MarketCall == delivered'["MARKET"] = delivered["MARKET"] + 1

\* the step is a MARKET call that passed the gate and obtained a prediction
PredictedCall == MarketCall /\ bar_index' > 5 /\ path' = "predicted"

\* the signal directions the step put on the queue, in order
Emitted ==
    [i \in 1..(Len(events') - Len(events)) |->
        events'[Len(events) + i].signal_type]

\* C1: while at most five MARKET events have been counted (bar_index <= 5
\* after its increment) no signal has been put on the queue, no prediction
\* has been made and long_market still has its initial value.
C1_NoSignalDuringWarmup ==
    bar_index <= 5 =>
        /\ events = <<>>
        /\ long_market = FALSE
        /\ path # "predicted"

\* the fifth MARKET event was handled by a strategy whose classifier would
\* have answered +1
C1_Witness ==
    bar_index = 5 /\ path = "warmup" /\ model = "bull"

\* C2: the signals put on the queue alternate LONG, EXIT, LONG, ... and
\* the first one is a LONG.
C2_SignalsAlternate ==
    \A i \in 1..Len(events) :
        events[i].signal_type = IF i % 2 = 1 THEN "LONG" ELSE "EXIT"

C2_Witness ==
    /\ Len(events) = 3
    /\ events[1].signal_type = "LONG"
    /\ events[2].signal_type = "EXIT"
    /\ events[3].signal_type = "LONG"

\* C3: a MARKET event past the gate, handled in state FLAT with a
\* prediction > 0, puts exactly one LONG SignalEvent on the queue and sets
\* long_market.
C3_FlatPositiveGoesLong ==
    [][(PredictedCall /\ ~long_market /\ pred' > 0) =>
          /\ events' = Append(events,
                              SignalEvent(1, sym, datetime_now, "LONG", 1))
          /\ long_market' = TRUE]_vars

\* the sixth MARKET event entered the market
C3_Witness ==
    /\ bar_index = 6
    /\ path = "predicted"
    /\ pred > 0
    /\ long_market
    /\ Len(events) = 1
    /\ events[1].signal_type = "LONG"
    /\ events[1].strength = 1

\* C4: a MARKET event past the gate, handled in state LONG with a
\* prediction < 0, puts exactly one EXIT SignalEvent on the queue and
\* clears long_market.
C4_LongNegativeExits ==
    [][(PredictedCall /\ long_market /\ pred' < 0) =>
          /\ events' = Append(events,
                              SignalEvent(1, sym, datetime_now, "EXIT", 1))
          /\ long_market' = FALSE]_vars

C4_Witness ==
    /\ path = "predicted"
    /\ pred < 0
    /\ ~long_market
    /\ Len(events) = 2
    /\ events[2].signal_type = "EXIT"

\* C5: a MARKET event past the gate handled in (FLAT, prediction <= 0) or
\* in (LONG, prediction >= 0) puts nothing on the queue and leaves
\* long_market as it was; a prediction of 0 does so in both states.
C5_OtherCombinationsNoSignal ==
    [][(/\ PredictedCall
        /\ \/ ~long_market /\ pred' <= 0
           \/ long_market /\ pred' >= 0) =>
          /\ events' = events
          /\ long_market' = long_market]_vars

\* a prediction of exactly 0 was handled while long
C5_Witness ==
    /\ path = "predicted"
    /\ pred = 0
    /\ long_market
    /\ taken = <<>>
    /\ Len(events) = 1

\* C6: one call of calculate_signals puts at most one SignalEvent on the
\* queue and executes at most one of the two `if` bodies, so long_market
\* is assigned at most once.
C6_AtMostOneSignalPerCall ==
    [][/\ Len(events') <= Len(events) + 1
       /\ Len(taken') <= 1]_vars

\* a call entered the market and did not exit in the same call
C6_Witness ==
    /\ path = "predicted"
    /\ taken = <<"LONG">>
    /\ long_market
    /\ pred > 0

\* the transition as a function of (long_market, sign of the prediction)
Transition(lm, s) ==
    CASE ~lm /\ s = 1 -> <<(<<"LONG">>), TRUE>>
      [] lm /\ s = -1 -> <<(<<"EXIT">>), FALSE>>
      [] OTHER -> <<(<<>>), lm>>

\* C7: past the gate, the signals a MARKET event emits and the next
\* long_market are one function of (long_market, sign of the prediction),
\* the same for every bar_index > 5.
C7_OutcomeFunctionOfStateAndSign ==
    [][PredictedCall =>
          <<Emitted, long_market'>> = Transition(long_market, Sign(pred'))]_vars

\* (FLAT, +) was handled at bar 8 after having been handled at an earlier
\* bar, and (LONG, -) in between
C7_Witness ==
    /\ bar_index = 8
    /\ path = "predicted"
    /\ pred > 0
    /\ taken = <<"LONG">>
    /\ Len(events) = 3

\* C8: bar_index is the number of MARKET events calculate_signals has been
\* given; it starts at 0 and no other event changes it.
C8_BarIndexCountsMarketEvents ==
    bar_index = delivered["MARKET"]

C8_Witness ==
    /\ bar_index = 7
    /\ NumOther(delivered) = 2
    /\ delivered["FILL"] = 1

\* C9: the feature vector is Lag1 = returns[1]*100, Lag2 = returns[2]*100
\* of the three values fetched, and replacing returns[0] by any other
\* value gives the same feature vector.
C9_FeaturesExcludeCurrentReturn ==
    path = "predicted" =>
        /\ Len(lags) = 3
        /\ X = [Lag1 |-> lags[2] * 100, Lag2 |-> lags[3] * 100]
        /\ \A r \in Returns : pred_series([lags EXCEPT ![1] = r]) = X
        /\ pred = predict(model, X)

C9_Witness ==
    /\ path = "predicted"
    /\ lags = <<1, -1, 0>>
    /\ X = [Lag1 |-> -100, Lag2 |-> 0]

\* C10: a MARKET event past the gate for which fewer than 3 returns are
\* fetched ends in an exception, puts nothing on the queue and leaves
\* long_market as it was.
C10_ShortHistoryFails ==
    [][(MarketCall /\ bar_index' > 5 /\ Len(lags') < 3) =>
          /\ raised' = "IndexError"
          /\ events' = events
          /\ long_market' = long_market]_vars

\* two returns were fetched while long
C10_Witness ==
    /\ raised = "IndexError"
    /\ bar_index > 6
    /\ Len(lags) = 2
    /\ long_market
    /\ Len(events) = 1

Max0(n) == IF n > 0 THEN n ELSE 0

NumSignals(q, direction) ==
    Cardinality({i \in 1..Len(q) : q[i].signal_type = direction})

Dates(tbl) == {r.date : r \in tbl}

\* C11: model.fit is called exactly once, by the construction and before
\* any event is handled, and no call of calculate_signals changes
\* self.model.
C11_FittedOnceAtConstruction ==
    /\ [](n_fit = IF path = "new" THEN 0 ELSE 1)
    /\ [](path \notin {"new", "failed"} => model \in Models)
    /\ [][path # "new" => model' = model]_vars

\* three predictions were made with the model fitted at construction
C11_Witness ==
    /\ n_predict = 3
    /\ n_fit = 1
    /\ model = "momentum"
    /\ bar_index = 8

\* C12: every SignalEvent on the queue carries datetime_now, the time read
\* at construction, whatever the time of the event that produced it.
C12_SignalsCarryConstructionTime ==
    /\ path # "new" => datetime_now = 0
    /\ \A i \in 1..Len(events) : events[i].datetime = datetime_now

\* three signals, emitted at three later times
C12_Witness ==
    /\ Len(events) = 3
    /\ utcnow >= 9
    /\ events[3].datetime = 0

\* C13: when the train partition is empty or has a single class the
\* construction fails: an exception leaves __init__, no model is set, and
\* the strategy handles no event and puts no signal afterwards.
C13_FailedConstructionUnusable ==
    /\ [](path = "failed" =>
            /\ raised = "ValueError"
            /\ model = "none"
            /\ events = <<>>
            /\ \A t \in EventTypes : delivered[t] = 0)
    /\ [][(/\ path = "new"
           /\ \/ X_train' = {}
              \/ Cardinality(classes(y_train')) < 2) =>
             path' = "failed"]_vars
    /\ [][path # "failed"]_vars

\* the train partition had two rows of the same class
C13_Witness ==
    /\ path = "failed"
    /\ Cardinality(X_train) = 2
    /\ Cardinality(classes(y_train)) = 1

\* C14 as stated: after n MARKET events the fetch and predict have each
\* been called max(0, n - 5) times.
C14_Original ==
    /\ n_fetch = Max0(bar_index - 5)
    /\ n_predict = Max0(bar_index - 5)

\* C14 (amended): after n MARKET events the fetch has been called
\* max(0, n - 5) times, once per MARKET event from the sixth on and never for
\* another event; predict has been called once for each of those fetches
\* that returned 3 values, which is all of them except the one that raised.
C14_FetchPerQualifyingEvent ==
    /\ n_fetch = Max0(bar_index - 5)
    /\ n_predict = n_fetch - (IF raised = "IndexError" THEN 1 ELSE 0)

\* the seventh MARKET event fetched a short history after a non-MARKET
\* event had been ignored
C14_Witness ==
    /\ bar_index = 7
    /\ raised = "IndexError"
    /\ n_fetch = 2
    /\ n_predict = 1
    /\ NumOther(delivered) = 1

\* C15: the number of LONG signals put minus the number of EXIT signals put
\* is 1 when long_market is True and 0 when it is False.
C15_FlagAgreesWithSignals ==
    NumSignals(events, "LONG") - NumSignals(events, "EXIT")
        = IF long_market THEN 1 ELSE 0

C15_Witness ==
    /\ NumSignals(events, "LONG") = 2
    /\ NumSignals(events, "EXIT") = 1
    /\ long_market

\* C16: a call of calculate_signals with an event that is not a MARKET
\* event leaves bar_index, long_market, short_market, the model and the
\* queue as they were.
C16_NonMarketEventChangesNothing ==
    [][(\E t \in EventTypes \ {"MARKET"} :
            delivered'[t] = delivered[t] + 1) =>
          UNCHANGED <<bar_index, long_market, short_market, model,
                      events>>]_vars

\* a non-MARKET event was ignored after the gate had opened, while long
C16_Witness ==
    /\ path = "ignored"
    /\ bar_index = 6
    /\ long_market
    /\ Len(events) = 1
    /\ delivered["ORDER"] = 1

\* C17: the rows dated before the cutoff are the train partition, the rows
\* dated on or after it are the test partition, the two are disjoint and
\* together are all rows, and fit is given the train partition.
C17_SplitPartitionsByCutoff ==
    path \in {"constructed", "failed"} =>
        /\ X_train = {r \in X_of(snpret) : r.date < model_start_test_date}
        /\ y_train = {r \in y_of(snpret) : r.date < model_start_test_date}
        /\ X_test = {r \in X_of(snpret) : r.date >= model_start_test_date}
        /\ y_test = {r \in y_of(snpret) : r.date >= model_start_test_date}
        /\ Dates(X_train) \cap Dates(X_test) = {}
        /\ Dates(y_train) \cap Dates(y_test) = {}
        /\ X_train \cup X_test = X_of(snpret)
        /\ y_train \cup y_test = y_of(snpret)
        /\ fitted_on = <<X_train, y_train>>

\* a history with a row on the cutoff day itself
C17_Witness ==
    /\ path = "constructed"
    /\ Cardinality(X_train) = 2
    /\ Dates(X_test) = {20170101, 20170103}

\* C18: short_market is False in every state and every signal on the queue
\* is a LONG or an EXIT.
C18_NeverShort ==
    /\ short_market = FALSE
    /\ \A i \in 1..Len(events) : events[i].signal_type \in {"LONG", "EXIT"}

\* a negative prediction was handled while flat
C18_Witness ==
    /\ path = "predicted"
    /\ pred < 0
    /\ ~long_market
    /\ taken = <<>>
    /\ ~short_market
    /\ Len(events) = 2

====
